---- MODULE Spec2Model ----
(***************************************************************************)
(* Model of exportMeshCache_v01.py: the operator EXPORT_OT_mesh_cache      *)
(* (execute), the frame sampler collect_vertex_animation_data and the      *)
(* encoder write_mdd, one action per statement that changes state.         *)
(*                                                                         *)
(* The host (bpy) is the environment: the evaluated mesh of an object at   *)
(* a frame has a vertex count the host decides (0..MaxVerts, chosen when   *)
(* the mesh is evaluated) and vertex v of object o at scene frame f sits   *)
(* at (o, f, v), so that a position tells where and when it was read.      *)
(* A Python float is an exact fraction [num, den]; a file is a sequence    *)
(* of 4-byte words, each tagged with its struct code.                      *)
(***************************************************************************)
EXTENDS Integers, Sequences, FiniteSets, TLC

\* ---- bounds of the model ------------------------------------------------
MaxStart == 2
MaxEnd == 2
MaxVerts == 1
MaxObjs == 2

\* ---- program constants --------------------------------------------------
FrameStartMin == 0
FrameEndMin == 1
WordBytes == 4

FpsValues == {1, 24}
ObjTypes == {"MESH", "EMPTY"}
FrameInit == MaxStart + MaxEnd + 1
OldFile == << [kind |-> "old", num |-> 0, den |-> 1] >>

VARIABLES
    frame_start, frame_end, fps, context_selected,
    pc, selected_objects, idx,
    frame, frame_current, mesh, to_mesh_copies,
    col_frames, col_frame_times,
    frame_times, frames,
    num_frames, num_points, wi,
    file, result, reports, frame_set_calls, open_calls

vars == << frame_start, frame_end, fps, context_selected,
           pc, selected_objects, idx,
           frame, frame_current, mesh, to_mesh_copies,
           col_frames, col_frame_times,
           frame_times, frames,
           num_frames, num_points, wi,
           file, result, reports, frame_set_calls, open_calls >>

props == << frame_start, frame_end, fps, context_selected >>
collectLocals == << frame, mesh, to_mesh_copies, col_frames, col_frame_times >>
writeLocals == << num_frames, num_points, wi >>
counters == << frame_set_calls, open_calls >>

\* ---- pure helpers -------------------------------------------------------
SeqsUpTo(S, n) == UNION { [1..k -> S] : k \in 0..n }

RECURSIVE SelectMesh(_, _)
SelectMesh(objs, i) ==
    IF i > Len(objs) THEN << >>
    ELSE IF objs[i] = "MESH" THEN << i >> \o SelectMesh(objs, i + 1)
    ELSE SelectMesh(objs, i + 1)

\* the evaluated mesh of object o at scene frame f with n vertices
EvaluatedVertices(o, f, n) == [v \in 1..n |-> << o, f, v >>]

\* frame / fps as an exact fraction
TrueDiv(f, r) == [num |-> f, den |-> r]
TimeLess(a, b) == a.num * b.den < b.num * a.den

PackInt(n) == [kind |-> "i32", num |-> n, den |-> 1]
PackFloat(t) == [kind |-> "f32", num |-> t.num, den |-> t.den]
PackCoord(x) == [kind |-> "f32", num |-> x, den |-> 1]
PackHeader(nf, np) == << PackInt(nf), PackInt(np) >>
PackVertex(p) == << PackCoord(p[1]), PackCoord(p[2]), PackCoord(p[3]) >>

RECURSIVE Flatten(_)
Flatten(fr) == IF fr = << >> THEN << >> ELSE Head(fr) \o Flatten(Tail(fr))


\* the whole word sequence write_mdd produces for a buffer
MddWords(ft, fr) ==
    PackHeader(Len(fr), Len(fr[1]))
        \o [i \in 1..Len(ft) |-> PackFloat(ft[i])]
        \o Flatten([k \in 1..Len(Flatten(fr)) |-> PackVertex(Flatten(fr)[k])])

\* ---- initial state ------------------------------------------------------
Init ==
    /\ frame_start \in FrameStartMin..MaxStart
    /\ frame_end \in FrameEndMin..MaxEnd
    /\ fps \in FpsValues
    /\ context_selected \in SeqsUpTo(ObjTypes, MaxObjs)
    /\ pc = "execute"
    /\ selected_objects = << >>
    /\ idx = 0
    /\ frame = 0
    /\ frame_current = FrameInit
    /\ mesh = << >>
    /\ to_mesh_copies = 0
    /\ col_frames = << >>
    /\ col_frame_times = << >>
    /\ frame_times = << >>
    /\ frames = << >>
    /\ num_frames = 0
    /\ num_points = 0
    /\ wi = 0
    /\ file = OldFile
    /\ result = "RUNNING"
    /\ reports = << >>
    /\ frame_set_calls = 0
    /\ open_calls = 0

\* ---- EXPORT_OT_mesh_cache.execute ----------------------------------------
\* faulty variant: the empty-selection test of line 96 is missing
execute_no_empty_check ==
    /\ pc = "execute"
    /\ selected_objects' = SelectMesh(context_selected, 1)
    /\ pc' = "for_obj"
    /\ UNCHANGED << props, idx, collectLocals, frame_times, frames,
                    writeLocals, file, counters, frame_current, reports, result >>

\* lines 93-98: filter the selection, report and cancel when it is empty
execute ==
    /\ pc = "execute"
    /\ selected_objects' = SelectMesh(context_selected, 1)
    /\ IF selected_objects' = << >>
       THEN /\ reports' = Append(reports, << "ERROR", "No mesh objects selected" >>)
            /\ result' = "CANCELLED"
            /\ pc' = "done"
       ELSE /\ pc' = "for_obj"
            /\ UNCHANGED << reports, result >>
    /\ UNCHANGED << props, idx, collectLocals, frame_times, frames,
                    writeLocals, file, counters, frame_current >>

\* line 100: the head of "for obj in selected_objects"
for_obj ==
    /\ pc = "for_obj"
    /\ IF idx < Len(selected_objects)
       THEN /\ idx' = idx + 1
            /\ pc' = "collect"
       ELSE /\ pc' = "report"
            /\ UNCHANGED idx
    /\ UNCHANGED << props, selected_objects, collectLocals, frame_times, frames,
                    writeLocals, file, result, reports, counters, frame_current >>

\* lines 110-111: report success and finish
report_finished ==
    /\ pc = "report"
    /\ reports' = Append(reports, << "INFO", "Exported mesh cache to filepath" >>)
    /\ result' = "FINISHED"
    /\ pc' = "done"
    /\ UNCHANGED << props, selected_objects, idx, collectLocals, frame_times, frames,
                    writeLocals, file, counters, frame_current >>

\* ---- collect_vertex_animation_data ----------------------------------------
\* lines 21-27: fresh lists, first test of range(frame_start, frame_end + 1)
collect_begin ==
    /\ pc = "collect"
    /\ col_frames' = << >>
    /\ col_frame_times' = << >>
    /\ frame' = frame_start
    /\ pc' = IF frame_start < frame_end + 1 THEN "frame_set" ELSE "collect_return"
    /\ UNCHANGED << props, selected_objects, idx, mesh, to_mesh_copies,
                    frame_times, frames, writeLocals, file, result, reports,
                    counters, frame_current >>

\* faulty variant: the scene is not advanced before the mesh is evaluated
frame_set_skipped ==
    /\ pc = "frame_set"
    /\ frame_set_calls' = frame_set_calls + 1
    /\ pc' = "to_mesh"
    /\ UNCHANGED << props, selected_objects, idx, frame, mesh, to_mesh_copies,
                    col_frames, col_frame_times, frame_times, frames,
                    writeLocals, file, result, reports, open_calls, frame_current >>

\* lines 28-29: scene.frame_set(frame); depsgraph.update()
frame_set ==
    /\ pc = "frame_set"
    /\ frame_current' = frame
    /\ frame_set_calls' = frame_set_calls + 1
    /\ pc' = "to_mesh"
    /\ UNCHANGED << props, selected_objects, idx, frame, mesh, to_mesh_copies,
                    col_frames, col_frame_times, frame_times, frames,
                    writeLocals, file, result, reports, open_calls >>

\* line 31: mesh = evaluated_obj.to_mesh(), evaluated at the scene's frame
to_mesh ==
    /\ pc = "to_mesh"
    /\ \E n \in 0..MaxVerts :
          mesh' = EvaluatedVertices(selected_objects[idx], frame_current, n)
    /\ to_mesh_copies' = to_mesh_copies + 1
    /\ pc' = "read"
    /\ UNCHANGED << props, selected_objects, idx, frame, col_frames, col_frame_times,
                    frame_times, frames, writeLocals, file, result, reports,
                    counters, frame_current >>

\* lines 32-34: read the positions, append them and the timestamp
read_append ==
    /\ pc = "read"
    /\ col_frames' = Append(col_frames, mesh)
    /\ col_frame_times' = Append(col_frame_times, TrueDiv(frame, fps))
    /\ pc' = "to_mesh_clear"
    /\ UNCHANGED << props, selected_objects, idx, frame, mesh, to_mesh_copies,
                    frame_times, frames, writeLocals, file, result, reports,
                    counters, frame_current >>

\* faulty variant: line 36 is missing, the temporary mesh is never released
to_mesh_clear_missing ==
    /\ pc = "to_mesh_clear"
    /\ frame' = frame + 1
    /\ pc' = IF frame + 1 < frame_end + 1 THEN "frame_set" ELSE "collect_return"
    /\ UNCHANGED << props, selected_objects, idx, col_frames, col_frame_times,
                    frame_times, frames, writeLocals, file, result, reports,
                    counters, frame_current, mesh, to_mesh_copies >>

\* line 36 and the next test of the range (line 27)
to_mesh_clear ==
    /\ pc = "to_mesh_clear"
    /\ mesh' = << >>
    /\ to_mesh_copies' = 0
    /\ frame' = frame + 1
    /\ pc' = IF frame + 1 < frame_end + 1 THEN "frame_set" ELSE "collect_return"
    /\ UNCHANGED << props, selected_objects, idx, col_frames, col_frame_times,
                    frame_times, frames, writeLocals, file, result, reports,
                    counters, frame_current >>

\* line 38 and the assignment of line 101
collect_return ==
    /\ pc = "collect_return"
    /\ frame_times' = col_frame_times
    /\ frames' = col_frames
    /\ pc' = "write_mdd"
    /\ UNCHANGED << props, selected_objects, idx, collectLocals,
                    writeLocals, file, result, reports, counters, frame_current >>

\* ---- write_mdd ------------------------------------------------------------
\* faulty variant: an empty buffer gets num_points = 0 instead of raising
write_mdd_begin_guarded ==
    /\ pc = "write_mdd"
    /\ num_frames' = Len(frames)
    /\ num_points' = IF frames = << >> THEN 0 ELSE Len(frames[1])
    /\ pc' = "open"
    /\ UNCHANGED << props, selected_objects, idx, collectLocals, frame_times, frames,
                    wi, file, reports, counters, frame_current, result >>

\* lines 41-42: len(frames), len(frames[0]); frames[0] of an empty list raises
write_mdd_begin ==
    /\ pc = "write_mdd"
    /\ num_frames' = Len(frames)
    /\ IF frames = << >>
       THEN /\ result' = "IndexError"
            /\ pc' = "done"
            /\ UNCHANGED num_points
       ELSE /\ num_points' = Len(frames[1])
            /\ pc' = "open"
            /\ UNCHANGED result
    /\ UNCHANGED << props, selected_objects, idx, collectLocals, frame_times, frames,
                    wi, file, reports, counters, frame_current >>

\* faulty variant: the file is opened in append mode ('ab')
open_ab ==
    /\ pc = "open"
    /\ open_calls' = open_calls + 1
    /\ pc' = "write_header"
    /\ UNCHANGED << props, selected_objects, idx, collectLocals, frame_times, frames,
                    writeLocals, result, reports, frame_set_calls, frame_current, file >>

\* line 44: open(filepath, 'wb') creates or truncates the file
open_wb ==
    /\ pc = "open"
    /\ file' = << >>
    /\ open_calls' = open_calls + 1
    /\ pc' = "write_header"
    /\ UNCHANGED << props, selected_objects, idx, collectLocals, frame_times, frames,
                    writeLocals, result, reports, frame_set_calls, frame_current >>

\* line 44: open fails (the path is not writable); the file stays as it was
open_fails ==
    /\ pc = "open"
    /\ result' = "PermissionError"
    /\ pc' = "done"
    /\ UNCHANGED << props, selected_objects, idx, collectLocals, frame_times, frames,
                    writeLocals, file, reports, counters, frame_current >>

\* line 45
write_header ==
    /\ pc = "write_header"
    /\ file' = file \o PackHeader(num_frames, num_points)
    /\ wi' = 1
    /\ pc' = "write_times"
    /\ UNCHANGED << props, selected_objects, idx, collectLocals, frame_times, frames,
                    num_frames, num_points, result, reports, counters, frame_current >>

\* lines 46-47: one timestamp per step
write_time ==
    /\ pc = "write_times"
    /\ IF wi <= Len(frame_times)
       THEN /\ file' = Append(file, PackFloat(frame_times[wi]))
            /\ wi' = wi + 1
            /\ UNCHANGED pc
       ELSE /\ wi' = 1
            /\ pc' = "write_verts"
            /\ UNCHANGED file
    /\ UNCHANGED << props, selected_objects, idx, collectLocals, frame_times, frames,
                    num_frames, num_points, result, reports, counters, frame_current >>

\* lines 48-50: one vertex per step, frame by frame; then the file is closed
write_vertex ==
    /\ pc = "write_verts"
    /\ IF wi <= Len(Flatten(frames))
       THEN /\ file' = file \o PackVertex(Flatten(frames)[wi])
            /\ wi' = wi + 1
            /\ UNCHANGED pc
       ELSE /\ wi' = 0
            /\ pc' = "for_obj"
            /\ UNCHANGED file
    /\ UNCHANGED << props, selected_objects, idx, collectLocals, frame_times, frames,
                    num_frames, num_points, result, reports, counters, frame_current >>

\* lines 45-50: a write raises (the device is full); what was written stays
write_fails ==
    /\ pc \in {"write_header", "write_times", "write_verts"}
    /\ pc = "write_times" => wi <= Len(frame_times)
    /\ pc = "write_verts" => wi <= Len(Flatten(frames))
    /\ result' = "OSError"
    /\ pc' = "done"
    /\ UNCHANGED << props, selected_objects, idx, collectLocals, frame_times, frames,
                    writeLocals, file, reports, counters, frame_current >>

Next ==
    \/ execute
    \/ for_obj
    \/ report_finished
    \/ collect_begin
    \/ frame_set
    \/ to_mesh
    \/ read_append
    \/ to_mesh_clear
    \/ collect_return
    \/ write_mdd_begin
    \/ open_wb
    \/ open_fails
    \/ write_header
    \/ write_time
    \/ write_vertex
    \/ write_fails

Spec == Init /\ [][Next]_vars


\* ---- vocabulary of the properties ---------------------------------------
Ragged(fr) == \E i \in 1..Len(fr) : Len(fr[i]) # Len(fr[1])
WritingPcs == {"open", "write_header", "write_times", "write_verts"}
LastObject == selected_objects[Len(selected_objects)]
WriteReturned == pc = "for_obj" /\ idx >= 1
HeaderFrameCount == file[1].num
HeaderPointCount == file[2].num

\* C1: when collect_vertex_animation_data returns for frame_start <= frame_end,
\* the buffer has frame_end - frame_start + 1 frames, entry i holds the
\* positions read with the scene at frame frame_start + i and the timestamp
\* (frame_start + i) / fps, and the timestamps increase strictly.
C1_SampledBuffer ==
    (pc = "write_mdd" /\ frame_start <= frame_end) =>
        /\ Len(frames) = frame_end - frame_start + 1
        /\ Len(frame_times) = frame_end - frame_start + 1
        /\ \A i \in 1..Len(frames) :
              /\ frame_times[i].num = frame_start + i - 1
              /\ frame_times[i].den = fps
              /\ \A v \in 1..Len(frames[i]) :
                    frames[i][v] = << selected_objects[idx], frame_start + i - 1, v >>
        /\ \A i \in 1..(Len(frame_times) - 1) :
              TimeLess(frame_times[i], frame_times[i + 1])

C1_Witness ==
    /\ pc = "write_mdd"
    /\ frame_start >= 1
    /\ Len(frames) >= 2
    /\ Len(frames[2]) >= 1

\* C2: when write_mdd returns, the file is the header, the timestamps and the
\* positions in order, and its length in bytes is
\* 8 + 4*frameCount + 12*frameCount*pointCount for the header's two values.
C2_ByteLength ==
    WriteReturned =>
        /\ file = MddWords(frame_times, frames)
        /\ Len(file) * WordBytes
             = 8 + 4 * HeaderFrameCount + 12 * HeaderFrameCount * HeaderPointCount

\* C3: a buffer whose frames differ in length is never handed to write_mdd.
C3_NoRaggedBufferWritten ==
    pc \in WritingPcs => ~Ragged(frames)

\* C4: no header with frameCount 0 or pointCount 0 is ever written to the file.
C4_NoEmptyHeader ==
    (file # OldFile /\ Len(file) >= 2) =>
        (HeaderFrameCount # 0 /\ HeaderPointCount # 0)

\* C5: with frame_start > frame_end the scene is never advanced, no file is
\* opened or written, success is not reported, and the export of the first
\* mesh object ends in an error.
C5_InvertedRange ==
    frame_start > frame_end =>
        /\ frame_set_calls = 0
        /\ frame_current = FrameInit
        /\ open_calls = 0
        /\ file = OldFile
        /\ result # "FINISHED"
        /\ (pc = "done" /\ selected_objects # << >>) =>
              (result = "IndexError" /\ idx = 1)

C5_Witness ==
    /\ frame_start > frame_end
    /\ pc = "done"
    /\ result = "IndexError"
    /\ Len(selected_objects) >= 2

\* C6: when an export has ended (other than by failing to open the target,
\* which leaves it as it was), the target holds its earlier content or the
\* complete encoding of the buffer handed to write_mdd, never a part of it.
C6_AtomicOutput ==
    (pc = "done" /\ result # "PermissionError") =>
        \/ file = OldFile
        \/ file = MddWords(frame_times, frames)

\* C7: with no MESH object in the selection execute reports an error, returns
\* CANCELLED, and neither the file nor the scene's frame is touched.
C7_NoMeshCancelled ==
    SelectMesh(context_selected, 1) = << >> =>
        /\ pc \in {"execute", "done"}
        /\ file = OldFile
        /\ open_calls = 0
        /\ frame_current = FrameInit
        /\ frame_set_calls = 0
        /\ pc = "done" =>
              /\ result = "CANCELLED"
              /\ reports = << << "ERROR", "No mesh objects selected" >> >>

C7_Witness ==
    /\ pc = "done"
    /\ result = "CANCELLED"
    /\ Len(context_selected) >= 1

\* C8: when the write of one object's cache fails, every other selected mesh
\* object has still been sampled and encoded by the time execute ends.
C8_OthersStillExported ==
    (pc = "done" /\ result = "OSError") => idx = Len(selected_objects)

\* C9: in the loop of collect_vertex_animation_data the scene is advanced
\* before the mesh is acquired, the mesh is read before it is released and
\* released before the next advance; at most one temporary mesh is
\* outstanding and none once the function has returned.
C9_ScopedTemporaryMesh ==
    /\ to_mesh_copies <= 1
    /\ pc = "frame_set" => (to_mesh_copies = 0 /\ Len(col_frames) = frame - frame_start)
    /\ pc = "to_mesh" => (to_mesh_copies = 0 /\ frame_current = frame)
    /\ pc = "read" =>
          /\ to_mesh_copies = 1
          /\ frame_current = frame
          /\ mesh = EvaluatedVertices(selected_objects[idx], frame, Len(mesh))
          /\ Len(col_frames) = frame - frame_start
    /\ pc = "to_mesh_clear" =>
          /\ to_mesh_copies = 1
          /\ Len(col_frames) = frame - frame_start + 1
    /\ pc \in {"collect_return", "write_mdd", "for_obj", "report"} \cup WritingPcs =>
          to_mesh_copies = 0

C9_Witness ==
    /\ pc = "collect_return"
    /\ Len(col_frames) >= 2
    /\ to_mesh_copies = 0

\* C10: after a successful execute every selected mesh object has been written
\* to the one target, which holds exactly the encoding of the last selected
\* mesh object; success is reported once.
C10_LastObjectWins ==
    result = "FINISHED" =>
        /\ open_calls = Len(selected_objects)
        /\ file = MddWords(frame_times, frames)
        /\ \A i \in 1..Len(frames) : \A v \in 1..Len(frames[i]) :
              frames[i][v][1] = LastObject
        /\ reports = << << "INFO", "Exported mesh cache to filepath" >> >>

C10_Witness ==
    /\ result = "FINISHED"
    /\ Len(selected_objects) >= 2
    /\ Len(Flatten(frames)) >= 1

====
